---- MODULE Spec2Model ----
(***************************************************************************)
(* A model of the AVI container writer of gwavi.cpp (class gwavi_t):       *)
(* open, add_frame, add_audio, close and set_codec acting on one session   *)
(* object and one output file.                                             *)
(*                                                                         *)
(* File offsets and sizes are 64-bit in the program (long long, size_t,    *)
(* long) and cross 2^31 and 2^32 in the cases of interest.  They are kept  *)
(* exactly, as two-limb numbers [b, s] standing for b * 2^31 + s with      *)
(* 0 <= s < 2^31.                                                          *)
(*                                                                         *)
(* The output file is a sequence of fields [k, n, v]: k the kind of the    *)
(* field (a four-character tag, "u32", "data", "pad", "hdrl", an index     *)
(* chunk, or "frag"/"hole" for bytes left by an overlapping or distant     *)
(* write), n its size in bytes, v its integer value.                       *)
(***************************************************************************)
EXTENDS Integers, Sequences, FiniteSets, TLC

(* ------------------------------ bounds -------------------------------- *)

\* Calls made on the session in one run.
MaxOps == 4

\* Failing I/O primitives in one run.
MaxFail == 1

\* Largest payload length of the word-alignment specification SpecPad.
MaxPadLen == 4095

\* The read primitives of the reader of which one may be made to fail.
MaxReads == 40

\* Largest size a chunk of the chunk specification SpecChunk declares.
MaxChunk == 72

\* Deepest nesting of lists in the inputs of the specification SpecDeep.
MaxDepth == 86

(* --------------------------- wide numbers ----------------------------- *)

\* 2^31 - 1, the largest low limb.
LimbMax == 2147483647

W(n) == [b |-> 0, s |-> n]

WZero == W(0)

\* 2^31, the first value above the 31-bit page range.
TwoTo31 == [b |-> 1, s |-> 0]

WAdd(x, y) ==
  IF x.s > LimbMax - y.s
  THEN [b |-> x.b + y.b + 1, s |-> x.s - (LimbMax - y.s) - 1]
  ELSE [b |-> x.b + y.b, s |-> x.s + y.s]

WLt(x, y) == x.b < y.b \/ (x.b = y.b /\ x.s < y.s)

WLe(x, y) == x = y \/ WLt(x, y)

WMin(x, y) == IF WLt(x, y) THEN x ELSE y

WMax(x, y) == IF WLt(x, y) THEN y ELSE x

\* x - y for y <= x.
WSub(x, y) ==
  IF x.s >= y.s
  THEN [b |-> x.b - y.b, s |-> x.s - y.s]
  ELSE [b |-> x.b - y.b - 1, s |-> x.s + (LimbMax - y.s) + 1]

\* The cast (unsigned int)x of a non-negative x: x mod 2^32.
ToU32(x) == [b |-> x.b % 2, s |-> x.s]

\* (unsigned int)(x - y) for any x, y >= 0: the difference mod 2^32.
SubU32(x, y) ==
  IF WLe(y, x)
  THEN ToU32(WSub(x, y))
  ELSE LET d == ToU32(WSub(y, x))
       IN  IF d = WZero THEN WZero ELSE WSub([b |-> 2, s |-> 0], d)

\* x % m for a power of two m <= 2^31 (m divides 2^31).
WMod(x, m) == x.s % m

(* ------------------------------- files -------------------------------- *)

Fld(k, n, v) == [k |-> k, n |-> n, v |-> v]

NoField == Fld("none", WZero, WZero)

RECURSIVE FLen(_)
FLen(file) ==
  IF file = <<>> THEN WZero ELSE WAdd(Head(file).n, FLen(Tail(file)))

\* The fields of file (whose first byte is at offset start) that lie in the
\* byte range [lo, hi); a field cut by the range leaves a fragment.
RECURSIVE Clip(_, _, _, _)
Clip(file, start, lo, hi) ==
  IF file = <<>> THEN <<>>
  ELSE LET h  == Head(file)
           e  == WAdd(start, h.n)
           a  == WMax(start, lo)
           z  == WMin(e, hi)
           me == IF ~WLt(a, z) THEN <<>>
                 ELSE IF WSub(z, a) = h.n THEN <<h>>
                 ELSE <<Fld("frag", WSub(z, a), WZero)>>
       IN  me \o Clip(Tail(file), e, lo, hi)

\* The field that starts exactly at byte offset off, NoField when none does.
RECURSIVE FieldFrom(_, _, _)
FieldFrom(file, start, off) ==
  IF file = <<>> THEN NoField
  ELSE IF start = off THEN Head(file)
  ELSE IF WLt(off, start) THEN NoField
  ELSE FieldFrom(Tail(file), WAdd(start, Head(file).n), off)

FieldAt(file, off) == FieldFrom(file, WZero, off)

\* One successful write primitive on a stream f = [file, pos]: the field
\* replaces the bytes at the position and the position advances.
fwrite(f, fld) ==
  IF fld.n = WZero THEN f
  ELSE LET len  == FLen(f.file)
           to   == WAdd(f.pos, fld.n)
           hole == IF WLt(len, f.pos)
                   THEN <<Fld("hole", WSub(f.pos, len), WZero)>> ELSE <<>>
       IN  IF f.pos = len
           THEN [f EXCEPT !.file = Append(@, fld), !.pos = to]
           ELSE [f EXCEPT
                  !.file = Clip(f.file, WZero, WZero, f.pos) \o hole \o <<fld>>
                             \o Clip(f.file, WZero, to, len),
                  !.pos  = to]

fseek(f, to) == [f EXCEPT !.pos = to]

\* The primitives flds written in order; primitive number fail (0: none)
\* fails and writes nothing, and nothing after it is attempted.  A write of
\* zero bytes cannot fail.
RECURSIVE WriteSeq(_, _, _)
WriteSeq(f, flds, fail) ==
  IF flds = <<>> THEN [f |-> f, ok |-> TRUE]
  ELSE IF fail = 1 /\ Head(flds).n # WZero THEN [f |-> f, ok |-> FALSE]
  ELSE WriteSeq(fwrite(f, Head(flds)), Tail(flds), fail - 1)

write_chars_bin(tag) == Fld(tag, W(4), WZero)

write_int(v) == Fld("u32", W(4), v)

(* --------------------------- program constants ------------------------ *)

NULL == "NULL"

WORD_SIZE == 4

IF_KEYFRAME == 16

\* 0x7FFFFFFF as a wide number.
PageLimit == W(LimbMax)

I420 == <<73, 52, 50, 48>>
X264 == <<88, 50, 54, 52>>
H265 == <<72, 50, 54, 53>>
MJPG == <<77, 74, 80, 71>>

(* ------------------------------- state -------------------------------- *)

VARIABLES
  gwavi,     \* the session object: the fields of class gwavi_t
  out_file,  \* the output file: whether it exists, its fields, the position
             \* of the stream `out` in it
  lastOp,    \* the last call made: its name, arguments, return value, and
             \* what it observed on the way
  sess,      \* the calls since the last open, in short: what that open
             \* returned (1: none made yet) and whether a close has failed
  nops,      \* calls made so far
  nfail,     \* I/O primitives that have failed so far
  rd,        \* the input stream `in` reads from, and what the last call of
             \* the reader returned
  walk       \* the frames of a printHeaders call that is followed step by
             \* step: printHeaders and the readList calls below it

vars == <<gwavi, out_file, lastOp, sess, nops, nfail, rd, walk>>

\* -1 as a wide number: what a failed ftell returns.
MinusOne == [b |-> -1, s |-> LimbMax]

\* The result of a handler: the session, the file, and the value returned.
\* obs is what add_frame saw right after its rollover branch (lines 324-346):
\* whether it flushed, the length of the log, the two page bases.
Res(g, f, ret, obs) == [g |-> g, f |-> f, ret |-> ret, obs |-> obs]

NoObs == [flushed |-> FALSE, midLog |-> 0,
          midBaseV |-> WZero, midBaseA |-> WZero]

\* gwavi_t::gwavi_t: every header zeroed, no handle.
Construct ==
  [in |-> NULL, out |-> NULL,
   fourcc |-> <<0, 0, 0, 0>>,
   bits_per_pixel |-> 24,
   avi_std |-> 2,
   audioEnabled |-> FALSE,
   avi_header |-> [number_of_frames |-> 0, width |-> 0, height |-> 0,
                   buffer_size |-> 0, data_streams |-> 0, flags |-> 0],
   stream_header_v |-> [codec |-> <<0, 0, 0, 0>>, data_length |-> 0,
                        buffer_size |-> 0],
   stream_format_v |-> [width |-> 0, height |-> 0, bits_per_pixel |-> 0,
                        compression_type |-> 0, image_size |-> 0],
   stream_header_a |-> [data_length |-> WZero],
   stream_index_v |-> <<>>,
   stream_index_a |-> <<>>,
   std_index_base_ofs_v |-> WZero,
   std_index_base_ofs_a |-> WZero,
   marker |-> WZero,
   movi_fpos |-> WZero,
   offsets |-> <<>>]

NoFile == [exists |-> FALSE, file |-> <<>>, pos |-> WZero]

\* The stream `in`: script is what its successive 4-byte reads of a tag or
\* a number deliver (vi of them delivered so far), avail the length of the
\* file behind it, pos the bytes consumed, nreads the read primitives
\* called; the primitive numbered failAt fails (0: none does).  failed: a
\* read has failed or a chunk of size zero was met; after: a read was made
\* after that.  maxlvl is the deepest nesting level the walker was called
\* with.
Stream(script, avail, failAt) ==
  [script |-> script, vi |-> 0, avail |-> avail, pos |-> WZero,
   nreads |-> 0, failAt |-> failAt, failed |-> FALSE, after |-> FALSE,
   movi_fpos |-> WZero, maxlvl |-> 0]

\* No stream, no reader call made.
\* ret is what printHeaders or openIn returned, count what readChunk did.
NoRead ==
  [rs |-> Stream(<<>>, WZero, 0), op |-> "none", ret |-> 0, count |-> WZero]

Init ==
  /\ gwavi = Construct
  /\ out_file = NoFile
  /\ lastOp = [op |-> "new", ret |-> 0, buf |-> FALSE, len |-> WZero,
               fourcc |-> <<0, 0, 0, 0>>, fps2 |-> 0, obs |-> NoObs]
  /\ sess = [openRet |-> 1, closeFailed |-> FALSE]
  /\ nops = 0
  /\ nfail = 0
  /\ rd = NoRead
  /\ walk = <<>>

(* ------------------------ external collaborators ---------------------- *)

\* The bytes write_avi_header_chunk emits: the `hdrl` header list, whose
\* size depends on the stream configuration alone and which carries the
\* main header's frame count.
HdrLen(g) == W(76 + 124 * g.avi_header.data_streams)

write_avi_header_chunk(g) ==
  Fld("hdrl", HdrLen(g), W(g.avi_header.number_of_frames))

(* -------------------------------- open -------------------------------- *)

\* The table of lines 155-170.
BitsPerPixel(fourcc) ==
  IF fourcc = I420 THEN 12
  ELSE IF fourcc = X264 THEN 12
  ELSE IF fourcc = H265 THEN 12
  ELSE 24

\* fourcc[3] << 24 + fourcc[2] << 16 + fourcc[1] << 8 + fourcc[0].
CompressionType(fourcc) ==
  fourcc[4] * 16777216 + fourcc[3] * 65536 + fourcc[2] * 256 + fourcc[1]

\* The header fields open sets (lines 141-251).
OpenHeaders(g, width, height, fourcc, audio) ==
  LET bpp  == BitsPerPixel(fourcc)
      size == (width * height * bpp) \div 8
  IN  [g EXCEPT
        !.bits_per_pixel = bpp,
        !.avi_header = [number_of_frames |-> 0, width |-> width,
                        height |-> height, buffer_size |-> size,
                        data_streams |-> IF audio THEN 2 ELSE 1,
                        flags |-> 16],
        !.stream_header_v = [codec |-> fourcc, data_length |-> 0,
                             buffer_size |-> size],
        !.stream_format_v = [width |-> width, height |-> height,
                             bits_per_pixel |-> bpp,
                             compression_type |-> CompressionType(fourcc),
                             image_size |-> size],
        !.audioEnabled = audio,
        !.std_index_base_ofs_v = WZero,
        !.std_index_base_ofs_a = WZero]

\* FpsRejected refusing negative rates only.
FpsRejectedMutant(fps2) == fps2 < 0

\* fps < 1, the frame rate given in half frames per second.
FpsRejected(fps2) == fps2 < 2

\* gwavi_t::open.  Primitives: 1 fopen, 2 "RIFF", 3 the size placeholder,
\* 4 "AVI ", 5 the header chunk, 6 "LIST", 7 ftell, 8 the size placeholder,
\* 9 "movi".
open(g, f, width, height, fourcc, fps2, audio, fail) ==
  LET g0 == [g EXCEPT !.fourcc = fourcc]
  IN
  IF FpsRejected(fps2) THEN Res(g0, f, -1, NoObs)
  ELSE IF fail = 1 THEN Res([g0 EXCEPT !.out = NULL], f, -1, NoObs)
  ELSE
  LET g1 == OpenHeaders([g0 EXCEPT !.out = "open"], width, height, fourcc, audio)
      f1 == [exists |-> TRUE, file |-> <<>>, pos |-> WZero]
      w1 == WriteSeq(f1, <<write_chars_bin("RIFF"), write_int(WZero),
                           write_chars_bin("AVI "), write_avi_header_chunk(g1),
                           write_chars_bin("LIST")>>,
                     IF fail \in 2..6 THEN fail - 1 ELSE 0)
      g2 == [g1 EXCEPT !.marker = IF fail = 7 THEN MinusOne ELSE w1.f.pos]
      w2 == WriteSeq(w1.f, <<write_int(WZero)>>, IF fail = 8 THEN 1 ELSE 0)
      g3 == [g2 EXCEPT !.movi_fpos = w2.f.pos]
      w3 == WriteSeq(w2.f, <<write_chars_bin("movi")>>, IF fail = 9 THEN 1 ELSE 0)
  IN
  IF ~w1.ok THEN Res(g1, w1.f, -1, NoObs)
  ELSE IF fail = 7 THEN Res(g2, w1.f, -1, NoObs)
  ELSE IF ~w2.ok THEN Res(g2, w2.f, -1, NoObs)
  ELSE IF ~w3.ok THEN Res(g3, w3.f, -1, NoObs)
  ELSE Res(g3, w3.f, 0, NoObs)

(* --------------------------- index manager ---------------------------- *)

IndexRec(fofs, len, type, keyFrame) ==
  [fofs |-> fofs, len |-> len, type |-> type, keyFrame |-> keyFrame]

\* The standard-index page of one stream: the records of that stream in the
\* log, to be stored relative to the stream's page base.
StdIndexPage(g, stream) ==
  [base |-> IF stream = 0 THEN g.std_index_base_ofs_v
            ELSE g.std_index_base_ofs_a,
   recs |-> SelectSeq(g.offsets, LAMBDA r : r.type = stream)]

\* write_stream_std_indx on the video (0) or audio (1) super-index: one
\* index chunk appended at the position, its page added to the super-index.
write_stream_std_indx(g, f, stream, fails) ==
  LET page == StdIndexPage(g, stream)
      idx  == IF stream = 0 THEN g.stream_index_v ELSE g.stream_index_a
      fld  == Fld(IF stream = 0 THEN "ix00" ELSE "ix01",
                  W(32 + 8 * Len(page.recs)), W(Len(idx) + 1))
  IN  IF fails THEN [g |-> g, f |-> f, ok |-> FALSE]
      ELSE [g  |-> IF stream = 0
                   THEN [g EXCEPT !.stream_index_v = Append(@, page)]
                   ELSE [g EXCEPT !.stream_index_a = Append(@, page)],
            f  |-> fwrite(f, fld),
            ok |-> TRUE]

\* write_index1: the legacy idx1 chunk, one 16-byte entry per record.
write_index1(g, f, fails) ==
  IF fails THEN [g |-> g, f |-> f, ok |-> FALSE]
  ELSE [g |-> g,
        f |-> fwrite(f, Fld("idx1", W(8 + 16 * Len(g.offsets)), WZero)),
        ok |-> TRUE]

(* ------------------------- add_frame, add_audio ----------------------- *)

\* MaxiPad without the complement to the word size.
MaxiPadMutant(len) == WMod(len, WORD_SIZE)

\* Lines 350-354 and 422-426: the padding of a payload of len bytes.
MaxiPad(len) ==
  LET maxi_pad == WMod(len, WORD_SIZE)
  IN  IF maxi_pad > 0 THEN WORD_SIZE - maxi_pad ELSE 0

\* (flags & IF_KEYFRAME) ? 1 : 0
KeyFrameBit(flags) == (flags \div IF_KEYFRAME) % 2

\* The write primitives of one data chunk: tag, length, payload, padding.
ChunkWrites(tag, len) ==
  <<write_chars_bin(tag), write_int(ToU32(len)),
    Fld("data", len, WZero), Fld("pad", W(MaxiPad(len)), WZero)>>

\* Lines 310 and 409: the only check made on the payload; its length is
\* not looked at.
BufferRejected(buffer, len) == buffer = NULL

\* PageOverflow measured from the start of the file.
PageOverflowMutant(fpos, base) == WLt(PageLimit, fpos)

\* fpos - base > 0x7FFFFFFF on long long values.
PageOverflow(fpos, base) == WLt(WAdd(base, PageLimit), fpos)

\* Lines 334-340 and 505-511: after the video index page ixv, the audio
\* index page of a session with audio.
AudioPage(ixv, fails) ==
  IF ~ixv.ok \/ ~ixv.g.audioEnabled THEN ixv
  ELSE write_stream_std_indx(ixv.g, ixv.f, 1, fails)

\* Lines 341-344: after the pages ix of a rollover are written, the log
\* and both page bases are cleared; a page that failed returns before.
Flushed(ix) ==
  IF ~ix.ok THEN [g |-> ix.g, f |-> ix.f, ok |-> FALSE, flushed |-> FALSE]
  ELSE [g |-> [ix.g EXCEPT !.offsets = <<>>,
                           !.std_index_base_ofs_v = WZero,
                           !.std_index_base_ofs_a = WZero],
        f |-> ix.f, ok |-> TRUE, flushed |-> TRUE]

\* Lines 316-346: the base of the video page, if unset, becomes the
\* position at entry; the pages roll over when the position is too far
\* from the base.  Primitives 1 and 2 of add_frame.
Rollover(g, f, fail) ==
  IF PageOverflow(f.pos, IF g.std_index_base_ofs_v = WZero THEN f.pos
                         ELSE g.std_index_base_ofs_v) /\ g.avi_std >= 2
  THEN Flushed(AudioPage(
         write_stream_std_indx(
           [g EXCEPT !.std_index_base_ofs_v = IF @ = WZero THEN f.pos ELSE @],
           f, 0, fail = 1),
         fail = 2))
  ELSE [g |-> [g EXCEPT !.std_index_base_ofs_v = IF @ = WZero THEN f.pos ELSE @],
        f |-> f, ok |-> TRUE, flushed |-> FALSE]

\* The result of a call that ends with the writes w of a chunk.
ChunkRes(g, w, obs) == Res(g, w.f, IF w.ok THEN 0 ELSE -1, obs)

\* Lines 348-390: the frame is counted and logged, then written.
\* Primitives 3 to 6 of add_frame.
AppendFrame(st, len, flags, fail) ==
  IF ~st.ok THEN Res(st.g, st.f, -1, NoObs)
  ELSE ChunkRes(
         [st.g EXCEPT !.stream_header_v.data_length = @ + 1,
                      !.offsets = Append(@, IndexRec(st.f.pos, len, 0,
                                                     KeyFrameBit(flags)))],
         WriteSeq(st.f, ChunkWrites("00dc", len),
                  IF fail >= 3 THEN fail - 2 ELSE 0),
         [flushed  |-> st.flushed,
          midLog   |-> Len(st.g.offsets),
          midBaseV |-> st.g.std_index_base_ofs_v,
          midBaseA |-> st.g.std_index_base_ofs_a])

\* gwavi_t::add_frame.  Primitives: 1 the video index page, 2 the audio
\* index page, 3 the tag, 4 the length, 5 the payload, 6 the padding.
add_frame(g, f, buffer, len, flags, fail) ==
  IF BufferRejected(buffer, len) THEN Res(g, f, -1, NoObs)
  ELSE AppendFrame(Rollover(g, f, fail), len, flags, fail)

\* AudioRes adding the length of the payload without its padding.
AudioResMutant(g, w, len) ==
  IF ~w.ok THEN Res(g, w.f, -1, NoObs)
  ELSE Res([g EXCEPT !.stream_header_a.data_length =
                       ToU32(WAdd(@, ToU32(len)))],
           w.f, 0, NoObs)

\* Line 462: the bytes of the block are added to the audio data length
\* once the block is written.
AudioRes(g, w, len) ==
  IF ~w.ok THEN Res(g, w.f, -1, NoObs)
  ELSE Res([g EXCEPT !.stream_header_a.data_length =
                       ToU32(WAdd(@, ToU32(WAdd(len, W(MaxiPad(len))))))],
           w.f, 0, NoObs)

\* gwavi_t::add_audio.  Primitives: 1 the tag, 2 the length, 3 the payload,
\* 4 the padding.
add_audio(g, f, buffer, len, fail) ==
  IF BufferRejected(buffer, len) THEN Res(g, f, -1, NoObs)
  ELSE AudioRes(
         [g EXCEPT !.std_index_base_ofs_a = IF @ = WZero THEN f.pos ELSE @,
                   !.offsets = Append(@, IndexRec(f.pos, len, 1, 1))],
         WriteSeq(f, ChunkWrites("01wb", len), fail),
         len)

(* -------------------------------- close ------------------------------- *)

\* fseek to a negative offset fails.
SeekFails(to, injected) == injected \/ to.b < 0

\* Patch leaving the cursor behind the field it wrote.
PatchMutant(st, at, fld, fail, k) ==
  IF fail = k \/ SeekFails(at, fail = k + 1) THEN [st EXCEPT !.ok = FALSE]
  ELSE IF fail = k + 2
  THEN [st EXCEPT !.f = fseek(@, at), !.ok = FALSE]
  ELSE IF SeekFails(st.f.pos, fail = k + 3)
  THEN [st EXCEPT !.f = fwrite(fseek(@, at), fld), !.ok = FALSE]
  ELSE [st EXCEPT !.f = fwrite(fseek(@, at), fld)]

\* The four steps of a rewrite in place: ftell, fseek to the place at,
\* the write of fld there, fseek back.  They are primitives k to k + 3 of
\* close; the first that fails ends the call.
Patch(st, at, fld, fail, k) ==
  IF fail = k \/ SeekFails(at, fail = k + 1) THEN [st EXCEPT !.ok = FALSE]
  ELSE IF fail = k + 2
  THEN [st EXCEPT !.f = fseek(@, at), !.ok = FALSE]
  ELSE IF SeekFails(st.f.pos, fail = k + 3)
  THEN [st EXCEPT !.f = fwrite(fseek(@, at), fld), !.ok = FALSE]
  ELSE [st EXCEPT !.f = fseek(fwrite(fseek(@, at), fld), st.f.pos)]

\* CloseMovi measuring the list from the marker itself.
CloseMoviMutant(st, fail) ==
  Patch(st, st.g.marker, write_int(SubU32(st.f.pos, st.g.marker)), fail, 1)

\* Lines 481-491: the size of the `movi` list, written at the marker.
CloseMovi(st, fail) ==
  Patch(st, st.g.marker,
        write_int(SubU32(st.f.pos, WAdd(st.g.marker, W(4)))), fail, 1)

\* Lines 493-514: the final index.  Primitives 5 and 6 of close.
CloseIndex(st, fail) ==
  IF ~st.ok THEN st
  ELSE IF st.g.avi_std < 2 THEN write_index1(st.g, st.f, fail = 5)
  ELSE AudioPage(write_stream_std_indx(st.g, st.f, 0, fail = 5), fail = 6)

\* Lines 516-522: the log and the page bases are cleared, the frame count
\* of the main header is set.
CloseTotals(st) ==
  IF ~st.ok THEN st
  ELSE [st EXCEPT !.g.offsets = <<>>,
                  !.g.std_index_base_ofs_v = WZero,
                  !.g.std_index_base_ofs_a = WZero,
                  !.g.avi_header.number_of_frames =
                     st.g.stream_header_v.data_length]

\* Lines 524-534: the header chunk rewritten at offset 12.
CloseHeader(st, fail) ==
  IF ~st.ok THEN st
  ELSE Patch(st, W(12), write_avi_header_chunk(st.g), fail, 7)

\* Lines 536-546: the RIFF size, written at offset 4.
CloseRiff(st, fail) ==
  IF ~st.ok THEN st
  ELSE Patch(st, W(4), write_int(SubU32(st.f.pos, W(8))), fail, 11)

\* Lines 551-557: fclose; the handle is set to NULL only when it succeeds.
CloseFile(st, fail) ==
  IF ~st.ok THEN st
  ELSE [st EXCEPT !.g.out = IF fail = 15 THEN "dangling" ELSE NULL,
                  !.ok = fail # 15]

\* What a call that ran the steps up to st returns.
Ret(st) == Res(st.g, st.f, IF st.ok THEN 0 ELSE -1, NoObs)

\* gwavi_t::close.  Primitives: 1 ftell, 2 fseek, 3 write_int, 4 fseek,
\* 5 and 6 the index, 7 ftell, 8 fseek, 9 the header chunk, 10 fseek,
\* 11 ftell, 12 fseek, 13 write_int, 14 fseek, 15 fclose.
close(g, f, fail) ==
  Ret(CloseFile(
        CloseRiff(
          CloseHeader(
            CloseTotals(
              CloseIndex(
                CloseMovi([g |-> g, f |-> f, ok |-> TRUE], fail),
                fail)),
            fail),
          fail),
        fail))

(* ------------------------------ set_codec ----------------------------- *)

\* gwavi_t::set_codec: no I/O.
set_codec(g, fourcc) ==
  [g EXCEPT !.fourcc = fourcc,
            !.stream_header_v.codec = fourcc,
            !.stream_format_v.compression_type = CompressionType(fourcc)]

(* ------------------------------- openIn ------------------------------- *)

\* gwavi_t::openIn: `in` becomes whatever fopen returned; nothing looks at
\* `out` or at the handle `in` held before.
openIn(g, opened) ==
  [g |-> [g EXCEPT !.in = IF opened THEN "open" ELSE NULL],
   ret |-> IF opened THEN 0 ELSE -1]

(* ------------------------------- reader ------------------------------- *)

\* sizeof(gwavi_header_t) and sizeof(gwavi_AVIStreamHeader): the fields
\* readAviHeader and readStreamHeader read, 56 bytes each.
SizeofAviHeader == 56

SizeofStreamHeader == 56

\* sizeof(unsigned short), the type of the word read_ushort delivers.
UShortBytes == 2

\* (unsigned int)(x + y) for x, y below 2^32.
AddU32(x, y) == ToU32(WAdd(x, y))

\* x / m for a power of two m with 2 <= m <= 2^31, x below 2^32.
WDiv(x, m) == x.b * ((LimbMax \div m) + 1) + x.s \div m

Least(a, b) == IF a < b THEN a ELSE b

\* What a reader call returns: the stream after it, and its value.
Rd(rs, ret) == [rs |-> rs, ret |-> ret]

\* One read primitive of n bytes succeeds: it is not the one that fails,
\* and the file has n bytes left.
ReadOk(rs, n) ==
  rs.nreads + 1 # rs.failAt /\ WLe(WAdd(rs.pos, W(n)), rs.avail)

\* One call of a read primitive for n bytes.
read_one(rs, n) ==
  IF ReadOk(rs, n)
  THEN [rs EXCEPT !.pos = WAdd(@, W(n)), !.nreads = @ + 1,
                  !.after = @ \/ rs.failed]
  ELSE [rs EXCEPT !.nreads = @ + 1, !.after = @ \/ rs.failed,
                  !.failed = TRUE]

\* read_uint, read_chars_bin(.., 4) of a value that steers the walk: the
\* read succeeds and the stream has a value to deliver.
HasValue(rs) == ReadOk(rs, 4) /\ rs.vi < Len(rs.script)

Value(rs) == rs.script[rs.vi + 1]

read_value(rs) ==
  IF HasValue(rs)
  THEN [rs EXCEPT !.pos = WAdd(@, W(4)), !.nreads = @ + 1, !.vi = @ + 1,
                  !.after = @ \/ rs.failed]
  ELSE [rs EXCEPT !.nreads = @ + 1, !.after = @ \/ rs.failed,
                  !.failed = TRUE]

\* How many successive reads of n bytes (n = 2 or 4) succeed from here.
ReadsLeft(rs, n) ==
  Least(WDiv(WSub(rs.avail, rs.pos), n),
        IF rs.failAt > rs.nreads THEN rs.failAt - rs.nreads - 1
        ELSE LimbMax)

Succeeds(rs, k, n) == k <= ReadsLeft(rs, n)

\* j reads of n bytes that succeed, then one that fails unless all did.
ReadN(rs, j, n, all) ==
  [rs EXCEPT !.pos = WAdd(@, W(j * n)),
             !.nreads = @ + j + (IF all THEN 0 ELSE 1),
             !.after = @ \/ (rs.failed /\ (j > 0 \/ ~all)),
             !.failed = @ \/ ~all]

\* k successive reads of n bytes each, given up at the first that fails.
read_many(rs, k, n) ==
  ReadN(rs, Least(k, ReadsLeft(rs, n)), n, Succeeds(rs, k, n))

\* A run of reads inside one header parser: nothing more is read once one
\* has failed.
Stage(st, k, n) ==
  IF st.ok
  THEN [rs |-> read_many(st.rs, k, n), ok |-> Succeeds(st.rs, k, n)]
  ELSE st

HdrRet(st, sz) == Rd(st.rs, IF st.ok THEN W(sz) ELSE WZero)

\* gwavi_t::readAviHeader: fourteen read_uint.
readAviHeader(rs) ==
  HdrRet(Stage([rs |-> rs, ok |-> TRUE], 14, 4), SizeofAviHeader)

\* gwavi_t::readStreamHeader: two tags and a number, two read_ushort, eight
\* read_uint, four read_short.
readStreamHeader(rs) ==
  HdrRet(Stage(Stage(Stage(Stage([rs |-> rs, ok |-> TRUE], 3, 4),
                           2, UShortBytes), 8, 4), 4, UShortBytes),
         SizeofStreamHeader)

\* peak_chunk looks a chunk up elsewhere in the file and comes back: the
\* stream is where it was, and readIndexBlock ignores what it returns.
peak_chunk(rs) == rs

\* gwavi_t::readIndexBlock, the loop of lines 1143-1178.
RECURSIVE IndexLoop(_, _, _)
IndexLoop(rs, size, bytesRead) ==
  IF WLt(size, W(4)) THEN Rd(rs, bytesRead)
  ELSE IF ~Succeeds(rs, 4, 4) THEN Rd(read_many(rs, 4, 4), WZero)
  ELSE IndexLoop(peak_chunk(read_many(rs, 4, 4)),
                 SubU32(size, W(16)), AddU32(bytesRead, W(16)))

readIndexBlock(rs, chunkSize) == IndexLoop(rs, chunkSize, WZero)

\* `return 0` where no read has failed: a chunk of size zero, a parser that
\* returned 0.
Fail(rs) == Rd([rs EXCEPT !.failed = TRUE], WZero)

\* PadTail counting the tag as well.
PadTailMutant(rs, size, bytesRead) ==
  IF size = WZero THEN Rd(rs, AddU32(bytesRead, W(8)))
  ELSE IF ~ReadOk(rs, WMod(size, WORD_SIZE))
  THEN Rd(read_one(rs, WMod(size, WORD_SIZE)), WZero)
  ELSE Rd(read_one(rs, WMod(size, WORD_SIZE)),
          AddU32(bytesRead, W(WMod(size, WORD_SIZE) + 8)))

\* Lines 880-896 of readChunk, 789-803 of readList: the bytes left below a
\* word are read as padding, and the count returned includes the size
\* field.
PadTail(rs, size, bytesRead) ==
  IF size = WZero THEN Rd(rs, AddU32(bytesRead, W(4)))
  ELSE IF ~ReadOk(rs, WMod(size, WORD_SIZE))
  THEN Rd(read_one(rs, WMod(size, WORD_SIZE)), WZero)
  ELSE Rd(read_one(rs, WMod(size, WORD_SIZE)),
          AddU32(bytesRead, W(WMod(size, WORD_SIZE) + 4)))

\* Lines 869-878 of readChunk: one read_ushort for every WORD_SIZE bytes of
\* size.
SkipWords(rs, size, bytesRead) ==
  IF ~Succeeds(rs, WDiv(size, WORD_SIZE), UShortBytes)
  THEN Rd(read_many(rs, WDiv(size, WORD_SIZE), UShortBytes), WZero)
  ELSE PadTail(read_many(rs, WDiv(size, WORD_SIZE), UShortBytes),
               W(WMod(size, WORD_SIZE)),
               AddU32(bytesRead, SubU32(size, W(WMod(size, WORD_SIZE)))))

\* Lines 828-833 of readChunk: size grows by its remainder.
Padded(size) ==
  IF WMod(size, WORD_SIZE) > 0
  THEN AddU32(size, W(WMod(size, WORD_SIZE)))
  ELSE size

\* Lines 835-867 of readChunk: the parser of a known id; its result counts
\* when the id is known.
Body(rs, id, chunkSize) ==
  IF id = "avih" THEN [known |-> TRUE, r |-> readAviHeader(rs)]
  ELSE IF id = "strh" THEN [known |-> TRUE, r |-> readStreamHeader(rs)]
  ELSE IF id = "idx1"
  THEN [known |-> TRUE, r |-> readIndexBlock(rs, chunkSize)]
  ELSE [known |-> FALSE, r |-> Rd(rs, WZero)]

AfterBody(b, size) ==
  IF b.known /\ b.r.ret = WZero THEN Fail(b.r.rs)
  ELSE SkipWords(b.r.rs, SubU32(size, b.r.ret), b.r.ret)

ChunkOf(rs, chunkSize, id) ==
  IF chunkSize = WZero THEN Fail(rs)
  ELSE AfterBody(Body(rs, id, chunkSize), Padded(chunkSize))

Entered(rs, lvl) ==
  [rs EXCEPT !.maxlvl = IF lvl > @ THEN lvl ELSE @]

\* gwavi_t::readChunk, called with the tag already read.
readChunk(rs, id, lvl) ==
  IF ~HasValue(rs) THEN Rd(read_value(Entered(rs, lvl)), WZero)
  ELSE ChunkOf(read_value(Entered(rs, lvl)), Value(rs).val, id)

RECURSIVE readList(_, _)
RECURSIVE ListLoop(_, _, _, _)

\* Lines 765-786 of readList, 695-714 of printHeaders: a LIST tag opens a
\* list, any other tag a chunk.
Child(rs, fourcc, lvl) ==
  IF fourcc = "LIST" THEN readList(rs, lvl + 1)
  ELSE readChunk(rs, fourcc, lvl + 1)

ChildFailedMutant(c) == FALSE

\* `if ( ret == 0 )`, lines 769, 780, 699 and 709.
ChildFailed(c) == c.ret = WZero

ListNext(c, size, bytesRead, lvl) ==
  IF ChildFailed(c) THEN Rd(c.rs, WZero)
  ELSE ListLoop(c.rs, SubU32(size, c.ret), AddU32(bytesRead, c.ret), lvl)

\* The loop of lines 754-787.
ListLoop(rs, size, bytesRead, lvl) ==
  IF WLt(size, W(4)) THEN PadTail(rs, size, bytesRead)
  ELSE IF ~HasValue(rs) THEN Rd(read_value(rs), WZero)
  ELSE ListNext(Child(read_value(rs), Value(rs).tag, lvl),
                SubU32(size, W(4)), AddU32(bytesRead, W(4)), lvl)

\* Lines 744-747: the position of the list type of `movi`.
Movi(rs, listType) ==
  IF listType = "movi" THEN [rs EXCEPT !.movi_fpos = WSub(rs.pos, W(4))]
  ELSE rs

ListType(rs, listSize, lvl) ==
  IF ~HasValue(rs) THEN Rd(read_value(rs), WZero)
  ELSE ListLoop(Movi(read_value(rs), Value(rs).tag),
                SubU32(listSize, W(4)), W(4), lvl)

\* gwavi_t::readList, called with the LIST tag already read.
readList(rs, lvl) ==
  IF ~HasValue(rs) THEN Rd(read_value(Entered(rs, lvl)), WZero)
  ELSE ListType(read_value(Entered(rs, lvl)), Value(rs).val, lvl)

\* What printHeaders returns: the stream after it and 0 or -1.
RECURSIVE FileLoop(_, _)

FileNext(c, size) ==
  IF ChildFailed(c) THEN [rs |-> c.rs, ret |-> -1]
  ELSE FileLoop(c.rs, SubU32(size, c.ret))

\* The loop of lines 685-715.
FileLoop(rs, size) ==
  IF WLt(size, W(4)) THEN [rs |-> rs, ret |-> 0]
  ELSE IF ~HasValue(rs) THEN [rs |-> read_value(rs), ret |-> -1]
  ELSE FileNext(Child(read_value(rs), Value(rs).tag, 0),
                SubU32(size, W(4)))

\* Lines 678-681: the form type.
FormType(rs, fileSize) ==
  IF ~HasValue(rs) THEN [rs |-> read_value(rs), ret |-> -1]
  ELSE FileLoop(read_value(rs), SubU32(fileSize, W(4)))

\* Lines 670-675: the size of the file.
FileSize(rs) ==
  IF ~HasValue(rs) THEN [rs |-> read_value(rs), ret |-> -1]
  ELSE FormType(read_value(rs), Value(rs).val)

\* gwavi_t::printHeaders.
printHeaders(g, rs) ==
  IF g.in = NULL THEN [rs |-> rs, ret |-> -1]
  ELSE IF ~HasValue(rs) THEN [rs |-> read_value(rs), ret |-> -1]
  ELSE FileSize(read_value(rs))

(* ------------------------------- actions ------------------------------ *)

FourCCs == {I420, X264, H265, MJPG}

\* Payload lengths: empty, unaligned, and 2^31 bytes.
Lens == {W(0), W(3), TwoTo31}

Buffers == {NULL, "buf"}

Call(op, r, buf, len, fourcc, fps2) ==
  [op |-> op, ret |-> r.ret, buf |-> buf, len |-> len, fourcc |-> fourcc,
   fps2 |-> fps2, obs |-> r.obs]

\* One more call may be made; a failing primitive may be injected.
CanCall(fail) == nops < MaxOps /\ (fail # 0 => nfail < MaxFail)

\* The call with result r was made; its primitive number fail failed
\* (0: none did).  r0 is the result without the failure: a failure must be
\* one the call reaches.
Step(r, r0, fail) ==
  /\ fail # 0 => r # r0
  /\ gwavi' = r.g
  /\ out_file' = r.f
  /\ nops' = nops + 1
  /\ nfail' = IF fail # 0 THEN nfail + 1 ELSE nfail
  /\ rd' = rd
  /\ walk' = walk

OpenWith(dims, fourccs, fpss) ==
  \E d \in dims, c \in fourccs, fps2 \in fpss, audio \in BOOLEAN, fail \in 0..9 :
    /\ gwavi.out = NULL
    /\ CanCall(fail)
    /\ \E r \in {open(gwavi, out_file, d[1], d[2], c, fps2, audio, fail)} :
         /\ Step(r, open(gwavi, out_file, d[1], d[2], c, fps2, audio, 0), fail)
         /\ lastOp' = Call("open", r, audio, WZero, c, fps2)
         /\ sess' = [openRet |-> r.ret, closeFailed |-> FALSE]

Open == OpenWith({<<2, 2>>}, {I420}, {0, 1, 60})

AddFrame ==
  \E buffer \in Buffers, len \in Lens, flags \in {0, IF_KEYFRAME}, fail \in 0..6 :
    /\ gwavi.out = "open"
    /\ CanCall(fail)
    /\ \E r \in {add_frame(gwavi, out_file, buffer, len, flags, fail)} :
         /\ Step(r, add_frame(gwavi, out_file, buffer, len, flags, 0), fail)
         /\ lastOp' = Call("add_frame", r, buffer # NULL, len, gwavi.fourcc, flags)
         /\ UNCHANGED sess

AddAudio ==
  \E buffer \in Buffers, len \in Lens, fail \in 0..4 :
    /\ gwavi.out = "open"
    /\ CanCall(fail)
    /\ \E r \in {add_audio(gwavi, out_file, buffer, len, fail)} :
         /\ Step(r, add_audio(gwavi, out_file, buffer, len, 0), fail)
         /\ lastOp' = Call("add_audio", r, buffer # NULL, len, gwavi.fourcc, 0)
         /\ UNCHANGED sess

Close ==
  \E fail \in 0..15 :
    /\ gwavi.out = "open"
    /\ CanCall(fail)
    /\ \E r \in {close(gwavi, out_file, fail)} :
         /\ Step(r, close(gwavi, out_file, 0), fail)
         /\ lastOp' = Call("close", r, FALSE, WZero, gwavi.fourcc, 0)
         /\ sess' = [sess EXCEPT !.closeFailed = @ \/ r.ret # 0]

Spec == Init /\ [][Open \/ AddFrame \/ AddAudio \/ Close]_vars

(* -------------- the specification of codec reconfiguration ------------ *)

\* Frame sizes 2x2 (a whole number of bytes at 12 bits per pixel) and 3x1;
\* frame rates in half frames per second: 0, 0.5, 1 and 30.
OpenAny == OpenWith({<<2, 2>>, <<3, 1>>}, FourCCs, {0, 1, 2, 60})

SetCodec ==
  \E c \in FourCCs :
    /\ gwavi.out = "open"
    /\ CanCall(0)
    /\ \E r \in {Res(set_codec(gwavi, c), out_file, 0, NoObs)} :
         /\ Step(r, r, 0)
         /\ lastOp' = Call("set_codec", r, FALSE, WZero, c, 0)
         /\ UNCHANGED sess

SpecCodec == Init /\ [][OpenAny \/ SetCodec]_vars

(* ----------------- the specification of word alignment ---------------- *)

\* A session just opened, or one that has appended a first frame: the
\* states from which one chunk of any length up to MaxPadLen is appended.
InitPad ==
  \E audio \in BOOLEAN, prior \in BOOLEAN :
    \E o \in {open(Construct, NoFile, 2, 2, I420, 60, audio, 0)} :
      \E r \in {IF prior THEN add_frame(o.g, o.f, "buf", W(3), 0, 0) ELSE o} :
        /\ gwavi = r.g
        /\ out_file = r.f
        /\ lastOp = Call("open", o, audio, WZero, I420, 60)
        /\ sess = [openRet |-> 0, closeFailed |-> FALSE]
        /\ nops = 0
        /\ nfail = 0
        /\ rd = NoRead
        /\ walk = <<>>

PadFrame ==
  \E len \in 0..MaxPadLen, flags \in {0, IF_KEYFRAME} :
    /\ nops = 0
    /\ \E r \in {add_frame(gwavi, out_file, "buf", W(len), flags, 0)} :
         /\ Step(r, r, 0)
         /\ lastOp' = Call("add_frame", r, TRUE, W(len), gwavi.fourcc, flags)
         /\ UNCHANGED sess

PadAudio ==
  \E len \in 0..MaxPadLen :
    /\ nops = 0
    /\ \E r \in {add_audio(gwavi, out_file, "buf", W(len), 0)} :
         /\ Step(r, r, 0)
         /\ lastOp' = Call("add_audio", r, TRUE, W(len), gwavi.fourcc, 0)
         /\ UNCHANGED sess

SpecPad == InitPad /\ [][PadFrame \/ PadAudio]_vars

(* ------------------ the specification of the lifecycle ---------------- *)

\* add_frame and add_audio do not look at `out` before they use it.  With
\* `out` null, ftell(out) and the writes are undefined behaviour: the
\* process ends there, or the library rejects the null stream, ftell
\* returns -1 and the first write fails.
Crashed(g, f) == Res([g EXCEPT !.out = "crashed"], f, -1, NoObs)

\* The call r ran with every write rejected: the file f is as it was.
NullRejected(r, f) == Res(r.g, f, r.ret, r.obs)

add_frame_null(g, f, buffer, len, flags, crash) ==
  IF BufferRejected(buffer, len) THEN Res(g, f, -1, NoObs)
  ELSE IF crash THEN Crashed(g, f)
  ELSE NullRejected(add_frame(g, [f EXCEPT !.pos = MinusOne], buffer, len,
                              flags, 3), f)

add_audio_null(g, f, buffer, len, crash) ==
  IF BufferRejected(buffer, len) THEN Res(g, f, -1, NoObs)
  ELSE IF crash THEN Crashed(g, f)
  ELSE NullRejected(add_audio(g, [f EXCEPT !.pos = MinusOne], buffer, len,
                              1), f)

\* A value the stream delivers: a tag, or a number.
T(tag) == [tag |-> tag, val |-> WZero]

U(n) == [tag |-> "", val |-> W(n)]

\* A header list, a `movi` list of a frame and an audio block, a legacy
\* index.
ScriptAvi ==
  <<T("RIFF"), U(146), T("AVI "),
    T("LIST"), U(68), T("hdrl"), T("avih"), U(56),
    T("LIST"), U(34), T("movi"), T("00dc"), U(8), T("01wb"), U(5),
    T("idx1"), U(16)>>

\* Lists three deep around a stream header and a format chunk.
ScriptNested ==
  <<T("RIFF"), U(120), T("AVI "),
    T("LIST"), U(104), T("hdrl"),
    T("LIST"), U(92), T("strl"), T("strh"), U(56), T("strf"), U(10),
    T("LIST"), U(6), T("odml"),
    T("JUNK"), U(2)>>

\* A frame of length zero between two frames.
ScriptZero ==
  <<T("RIFF"), U(60), T("AVI "),
    T("LIST"), U(44), T("movi"), T("00dc"), U(4), T("00dc"), U(0),
    T("00dc"), U(4)>>

\* Headers shorter than their parsers read, an index of a size that is no
\* multiple of its record.
ScriptShort ==
  <<T("RIFF"), U(90), T("AVI "),
    T("avih"), U(16), T("idx1"), U(3), T("idx1"), U(20), T("LIST"), U(3)>>


\* A call that writes nothing: what lastOp says of it.
Quiet(op, ret) ==
  Call(op, [ret |-> ret, obs |-> NoObs], FALSE, WZero, <<0, 0, 0, 0>>, 0)

OpenInWith(inputs) ==
  \E opened \in BOOLEAN, inp \in inputs :
    /\ CanCall(IF opened THEN 0 ELSE 1)
    /\ \E r \in {openIn(gwavi, opened)} :
         /\ gwavi' = r.g
         /\ rd' = [rs |-> IF opened THEN inp ELSE NoRead.rs,
                   op |-> "openIn", ret |-> r.ret, count |-> WZero]
         /\ lastOp' = Quiet("openIn", r.ret)
         /\ nops' = nops + 1
         /\ nfail' = IF opened THEN nfail ELSE nfail + 1
         /\ UNCHANGED <<out_file, sess, walk>>

\* printHeaders walks on from where the stream is.
PrintHeaders ==
  /\ nops < MaxOps
  /\ \E r \in {printHeaders(gwavi,
                 [rd.rs EXCEPT !.movi_fpos = gwavi.movi_fpos,
                               !.failed = FALSE, !.after = FALSE,
                               !.maxlvl = 0])} :
       /\ gwavi' = [gwavi EXCEPT !.movi_fpos = r.rs.movi_fpos]
       /\ rd' = [rs |-> r.rs, op |-> "printHeaders", ret |-> r.ret,
                 count |-> WZero]
       /\ lastOp' = Quiet("printHeaders", r.ret)
       /\ nops' = nops + 1
       /\ UNCHANGED <<out_file, sess, nfail, walk>>

LifeOpenIn ==
  OpenInWith({Stream(ScriptAvi, W(150), 0), Stream(ScriptZero, W(40), 0)})

LifeOpen == OpenWith({<<2, 2>>}, {I420}, {60})

\* add_frame on a session whose `out` is a stream.
LifeFrame ==
  \E buffer \in Buffers, fail \in {0, 3} :
    /\ gwavi.out = "open"
    /\ CanCall(fail)
    /\ \E r \in {add_frame(gwavi, out_file, buffer, W(3), 0, fail)} :
         /\ Step(r, add_frame(gwavi, out_file, buffer, W(3), 0, 0), fail)
         /\ lastOp' = Call("add_frame", r, buffer # NULL, W(3), gwavi.fourcc, 0)
         /\ UNCHANGED sess

LifeAudio ==
  \E buffer \in Buffers, fail \in {0, 1} :
    /\ gwavi.out = "open"
    /\ CanCall(fail)
    /\ \E r \in {add_audio(gwavi, out_file, buffer, W(3), fail)} :
         /\ Step(r, add_audio(gwavi, out_file, buffer, W(3), 0), fail)
         /\ lastOp' = Call("add_audio", r, buffer # NULL, W(3), gwavi.fourcc, 0)
         /\ UNCHANGED sess

\* add_frame on a session whose `out` is null: never opened, or closed.
NullFrame ==
  \E buffer \in Buffers, crash \in BOOLEAN :
    /\ gwavi.out = NULL
    /\ CanCall(0)
    /\ \E r \in {add_frame_null(gwavi, out_file, buffer, W(3), 0, crash)} :
         /\ Step(r, r, 0)
         /\ lastOp' = Call("add_frame", r, buffer # NULL, W(3), gwavi.fourcc, 0)
         /\ UNCHANGED sess

NullAudio ==
  \E buffer \in Buffers, crash \in BOOLEAN :
    /\ gwavi.out = NULL
    /\ CanCall(0)
    /\ \E r \in {add_audio_null(gwavi, out_file, buffer, W(3), crash)} :
         /\ Step(r, r, 0)
         /\ lastOp' = Call("add_audio", r, buffer # NULL, W(3), gwavi.fourcc, 0)
         /\ UNCHANGED sess

SpecLife ==
  /\ Init
  /\ [][\/ LifeOpenIn
        \/ LifeOpen
        \/ LifeFrame
        \/ LifeAudio
        \/ NullFrame
        \/ NullAudio
        \/ Close
        \/ PrintHeaders]_vars

(* -------------------- the specification of the reader ----------------- *)

\* The stream is opened once, on one of the scripts behind files of several
\* lengths, with any one read failing or none.
ReadOpen ==
  /\ gwavi.in = NULL
  /\ OpenInWith({Stream(sc, W(a), n) :
                   sc \in {ScriptAvi, ScriptNested, ScriptZero, ScriptShort},
                   a \in {0, 10, 40, 90, 150, 400},
                   n \in 0..MaxReads})

SpecRead == Init /\ [][ReadOpen \/ PrintHeaders]_vars

(* ------------------------- reading the file back ---------------------- *)

\* The byte offset of field number i.
OffsetOf(file, i) == FLen(SubSeq(file, 1, i - 1))

DataTags == {"00dc", "01wb"}

\* Field i is the tag of a chunk that is whole in the file: the tag, the
\* length, then as many payload and padding bytes as the length asks for.
ChunkComplete(file, i) ==
  /\ i + 1 <= Len(file)
  /\ file[i + 1].k = "u32"
  /\ LET len == file[i + 1].v
         d   == IF len # WZero THEN 1 ELSE 0
         pad == (WORD_SIZE - WMod(len, WORD_SIZE)) % WORD_SIZE
         p   == IF pad # 0 THEN 1 ELSE 0
     IN  /\ i + 1 + d + p <= Len(file)
         /\ d = 1 => (file[i + 2].k = "data" /\ file[i + 2].n = len)
         /\ p = 1 => (file[i + 2 + d].k = "pad" /\ file[i + 2 + d].n = W(pad))

\* The chunks with one of the tags that are whole in the file.
Chunks(file, tags) ==
  {i \in 1..Len(file) : file[i].k \in tags /\ ChunkComplete(file, i)}

\* The size on disk of the whole chunk at field i: the 8-byte prefix, the
\* payload, the padding.
ChunkSize(file, i) ==
  LET len == file[i + 1].v
  IN  WAdd(W(8 + ((WORD_SIZE - WMod(len, WORD_SIZE)) % WORD_SIZE)), len)

RECURSIVE SumChunkSizes(_, _)
SumChunkSizes(file, is) ==
  IF is = {} THEN WZero
  ELSE LET i == CHOOSE j \in is : TRUE
       IN  WAdd(ChunkSize(file, i), SumChunkSizes(file, is \ {i}))

IndexTags == {"ix00", "ix01", "idx1"}

\* The index chunks close appends: the last one, or the last two of a
\* session with audio.
FinalIndex(g, file) ==
  {i \in 1..Len(file) : i > Len(file) - (IF g.audioEnabled THEN 2 ELSE 1)}

\* The index chunks a rollover appended among the data chunks.
RolloverIndex(g, file) ==
  {i \in 1..Len(file) : file[i].k \in IndexTags} \ FinalIndex(g, file)

RECURSIVE SumSizes(_, _)
SumSizes(file, is) ==
  IF is = {} THEN WZero
  ELSE LET i == CHOOSE j \in is : TRUE
       IN  WAdd(file[i].n, SumSizes(file, is \ {i}))

\* close has just returned success on a session whose open succeeded and
\* on which no earlier close failed.
ClosedOk ==
  /\ lastOp.op = "close"
  /\ lastOp.ret = 0
  /\ sess.openRet = 0
  /\ ~sess.closeFailed

(* -------------------------------- claims ------------------------------ *)

\* C1: after a successful close the frame count of the header chunk at
\* offset 12 equals the number of `00dc` chunks that are whole in the file,
\* whatever calls were made in between and whatever they returned.
C1_FrameCountIsChunkCount ==
  ClosedOk =>
    FieldAt(out_file.file, W(12)).v
      = W(Cardinality(Chunks(out_file.file, {"00dc"})))

\* C2: after a successful close the value at offset 4 is the
\* file length minus 8.
C2_RiffSizeIsLengthMinus8 ==
  ClosedOk =>
    FieldAt(out_file.file, W(4)).v = WSub(FLen(out_file.file), W(8))

\* C3 as stated: after a successful close the `movi` size at the marker is
\* the sum of the on-disk sizes of the appended chunks.
C3_MoviSizeIsChunkSum ==
  ClosedOk =>
    FieldAt(out_file.file, gwavi.marker).v
      = SumChunkSizes(out_file.file, Chunks(out_file.file, DataTags))

\* The fields between the `movi` tag and the index chunks close appends.
MoviBody(g, file) ==
  {i \in 1..Len(file) : WLt(WAdd(g.marker, W(4)), OffsetOf(file, i))}
    \ FinalIndex(g, file)

\* C3 as amended: after a successful close the `movi` size at the marker
\* is, modulo 2^32, 4 (the `movi` tag) plus the bytes between that tag and
\* the index chunks close appends; when no write has failed these bytes
\* are the appended chunks and the index chunks rollovers appended.
C3_MoviSizeAmended ==
  ClosedOk =>
    /\ FieldAt(out_file.file, gwavi.marker)
         = write_int(ToU32(WAdd(W(4),
             SumSizes(out_file.file, MoviBody(gwavi, out_file.file)))))
    /\ nfail = 0 =>
         SumSizes(out_file.file, MoviBody(gwavi, out_file.file))
           = WAdd(SumChunkSizes(out_file.file, Chunks(out_file.file, DataTags)),
                  SumSizes(out_file.file, RolloverIndex(gwavi, out_file.file)))

\* C3's case: a successful close after frames and audio blocks.
C3_Witness ==
  /\ ClosedOk
  /\ nfail = 0
  /\ Chunks(out_file.file, {"00dc"}) # {}
  /\ Chunks(out_file.file, {"01wb"}) # {}

\* The last data chunk tag in the file.
LastChunk(file) ==
  CHOOSE i \in 1..Len(file) :
    /\ file[i].k \in DataTags
    /\ \A j \in (i + 1)..Len(file) : file[j].k \notin DataTags

\* C4: a chunk written by add_frame or add_audio for a payload of len bytes
\* is the tag, the length len, the payload and (4 - len % 4) % 4 padding
\* bytes; its size is a multiple of 4 and it starts a multiple of 4 after
\* the chunk before it.
C4_ChunkWordAligned ==
  (lastOp.op \in {"add_frame", "add_audio"} /\ lastOp.ret = 0) =>
    LET file == out_file.file
        i    == LastChunk(file)
        len  == lastOp.len
        pad  == (4 - (len.s % 4)) % 4
        size == WSub(FLen(file), OffsetOf(file, i))
        prev == {j \in 1..(i - 1) : file[j].k \in DataTags}
    IN  /\ file[i].k = IF lastOp.op = "add_frame" THEN "00dc" ELSE "01wb"
        /\ file[i].n = W(4)
        /\ file[i + 1] = write_int(len)
        /\ ChunkComplete(file, i)
        /\ size = W(4 + 4 + len.s + pad)
        /\ size.s % 4 = 0
        /\ \A j \in prev :
             WSub(OffsetOf(file, i), OffsetOf(file, j)).s % 4 = 0

\* C4's case: a payload one byte past a word boundary has been written.
C4_Witness ==
  /\ lastOp.op \in {"add_frame", "add_audio"}
  /\ lastOp.ret = 0
  /\ lastOp.len = W(4093)
  /\ Len(out_file.file) > 10

\* The pages of a stream that index chunks in the file refer to.
PagesOf(g, file, stream) ==
  LET tag == IF stream = 0 THEN "ix00" ELSE "ix01"
      idx == IF stream = 0 THEN g.stream_index_v ELSE g.stream_index_a
  IN  {n \in 1..Len(idx) :
         \E i \in 1..Len(file) : file[i].k = tag /\ file[i].v = W(n)}

\* The places (page, entry) at which the chunk at byte offset ofs is
\* serialized in the flushed pages of a stream.
Entries(g, file, stream, ofs) ==
  LET idx == IF stream = 0 THEN g.stream_index_v ELSE g.stream_index_a
  IN  {pe \in PagesOf(g, file, stream) \X (1..Len(g.offsets) + Len(file)) :
         /\ pe[2] <= Len(idx[pe[1]].recs)
         /\ idx[pe[1]].recs[pe[2]].fofs = ofs}

StreamOf(tag) == IF tag = "00dc" THEN 0 ELSE 1

\* Every whole chunk of the file is serialized at exactly one place of the
\* flushed pages of its stream, and the log is empty.
EachChunkIndexedOnce ==
  /\ \A i \in Chunks(out_file.file, DataTags) :
       Cardinality(Entries(gwavi, out_file.file, StreamOf(out_file.file[i].k),
                           OffsetOf(out_file.file, i))) = 1
  /\ gwavi.offsets = <<>>

\* C5: after a successful close, whatever add_frame and add_audio
\* calls came before it, every appended chunk is serialized in exactly one
\* flushed page of its own stream and the log is empty.
C5_EveryChunkIndexedOnce == ClosedOk => EachChunkIndexedOnce

\* C6: a call of add_frame with a payload flushes exactly when the
\* position at entry, minus the video page base (an unset base taking the
\* position at entry), exceeds 0x7FFFFFFF.  A flush emits one video page,
\* one audio page when audio is enabled, and leaves the log empty and both
\* bases zero before the frame's own record is appended; a call that does
\* not flush emits no page.  A flush whose index write fails returns -1
\* with the log as it was.
C6_FlushExactlyOnOverflow ==
  [][(lastOp'.op = "add_frame" /\ lastOp'.buf /\ nops' = nops + 1) =>
      LET entry  == out_file.pos
          base   == IF gwavi.std_index_base_ofs_v = WZero THEN entry
                    ELSE gwavi.std_index_base_ofs_v
          over   == WLt(base, entry) /\ WLt(W(2147483647), WSub(entry, base))
          dv     == Len(gwavi'.stream_index_v) - Len(gwavi.stream_index_v)
          da     == Len(gwavi'.stream_index_a) - Len(gwavi.stream_index_a)
          passed == gwavi'.stream_header_v.data_length
                      = gwavi.stream_header_v.data_length + 1
      IN  /\ ~over => (passed /\ dv = 0 /\ da = 0 /\ ~lastOp'.obs.flushed
                        /\ Len(gwavi'.offsets) = Len(gwavi.offsets) + 1)
          /\ (over /\ passed) =>
               /\ dv = 1
               /\ da = IF gwavi.audioEnabled THEN 1 ELSE 0
               /\ lastOp'.obs = [flushed |-> TRUE, midLog |-> 0,
                                 midBaseV |-> WZero, midBaseA |-> WZero]
               /\ Len(gwavi'.offsets) = 1
               /\ gwavi'.std_index_base_ofs_v = WZero
               /\ gwavi'.std_index_base_ofs_a = WZero
          /\ (over /\ ~passed) =>
               /\ lastOp'.ret = -1
               /\ dv <= 1 /\ da = 0
               /\ gwavi'.offsets = gwavi.offsets]_vars

\* C6's case: add_frame has flushed the pages of a session with audio.
C6_Witness ==
  /\ lastOp.op = "add_frame"
  /\ lastOp.ret = 0
  /\ lastOp.obs.flushed
  /\ gwavi.audioEnabled
  /\ Len(gwavi.stream_index_a) = 1

\* C7: every record of every flushed page lies between 0 and 0x7FFFFFFF
\* bytes after the page base of its stream.
C7_PageOffsetsIn31Bits ==
  \A idx \in {gwavi.stream_index_v, gwavi.stream_index_a} :
    \A n \in 1..Len(idx) :
      \A e \in 1..Len(idx[n].recs) :
        /\ WLe(idx[n].base, idx[n].recs[e].fofs)
        /\ WLe(WSub(idx[n].recs[e].fofs, idx[n].base), PageLimit)

\* The stream-format fields and the codec tag of a session.
VideoFormat(g) ==
  [compression_type |-> g.stream_format_v.compression_type,
   bits_per_pixel   |-> g.stream_format_v.bits_per_pixel,
   image_size       |-> g.stream_format_v.image_size,
   codec            |-> g.stream_header_v.codec]

\* C8: set_codec("X264") followed by set_codec("I420") leaves the
\* stream-format fields and the codec tag as open sets them for "I420" at
\* the same width and height.
C8_SetCodecAsOpened ==
  [][(/\ lastOp.op = "set_codec" /\ lastOp.fourcc = X264
      /\ lastOp'.op = "set_codec" /\ lastOp'.fourcc = I420
      /\ nops' = nops + 1) =>
      VideoFormat(gwavi')
        = VideoFormat(OpenHeaders(Construct, gwavi.avi_header.width,
                                  gwavi.avi_header.height, I420,
                                  gwavi.audioEnabled))]_vars

\* C9: open called with a frame rate of 0 returns -1, leaves the write
\* handle null, and touches no file: none is created, none is written.
C9_ZeroFpsRejected ==
  [][(lastOp'.op = "open" /\ lastOp'.fps2 = 0 /\ nops' = nops + 1) =>
      /\ lastOp'.ret = -1
      /\ gwavi.out = NULL /\ gwavi'.out = NULL
      /\ out_file' = out_file
      /\ nfail' = nfail]_vars

\* C9's case: the first open of a session was made with a frame rate of 0.
C9_Witness ==
  /\ lastOp.op = "open"
  /\ lastOp.fps2 = 0
  /\ nops = 1
  /\ ~out_file.exists

\* C10: add_frame returns -1 for a null payload and for an empty one (a
\* length of 0 in a buffer that is not null), and then leaves the file,
\* its position, the frame counter, the log and the page bases as they
\* were.
C10_NullOrEmptyRejected ==
  [][(/\ lastOp'.op = "add_frame"
      /\ nops' = nops + 1
      /\ (~lastOp'.buf \/ lastOp'.len = WZero)) =>
      /\ lastOp'.ret = -1
      /\ out_file' = out_file
      /\ gwavi' = gwavi]_vars


\* C11: in every state the program reaches, whatever calls of openIn,
\* open, add_frame, add_audio, close and printHeaders were made, exactly one
\* of the handles `out` and `in` is non-null.  The constructor sets both to
\* NULL, close leaves both null, and openIn followed by open sets both.
C11_ExactlyOneHandle == (gwavi.in = NULL) # (gwavi.out = NULL)

\* C12: once close has returned success (`out` is null again after an
\* open that succeeded), every add_frame and add_audio returns an error
\* and leaves the session and the file as they were: no byte written, no
\* handle touched, frame counter and log unchanged.
C12_ClosedSessionRejectsWrites ==
  [][(gwavi.out = NULL /\ sess.openRet = 0
      /\ lastOp'.op \in {"add_frame", "add_audio"})
     => (lastOp'.ret = -1 /\ gwavi' = gwavi /\ out_file' = out_file)]_vars

\* The stream the reader has before it once the walker has read the tag of
\* the chunk at field i of the file: the length field, then the bytes up
\* to the end of the file.
ChunkStream(file, i) ==
  Stream(<<[tag |-> file[i].k, val |-> file[i + 1].v]>>,
         WSub(FLen(file), WAdd(OffsetOf(file, i), W(4))), 0)

\* The chunk just appended is read back by readChunk, as the walk of the
\* `movi` list does at lines 756-786.
ReadBack ==
  /\ nops = 1
  /\ lastOp.op \in {"add_frame", "add_audio"}
  /\ lastOp.ret = 0
  /\ \E i \in {LastChunk(out_file.file)} :
       \E r \in {readChunk(ChunkStream(out_file.file, i),
                           out_file.file[i].k, 1)} :
         rd' = [rs |-> r.rs, op |-> "readChunk", ret |-> 0, count |-> r.ret]
  /\ nops' = nops + 1
  /\ UNCHANGED <<gwavi, out_file, lastOp, sess, nfail, walk>>

SpecBack == InitPad /\ [][PadFrame \/ PadAudio \/ ReadBack]_vars

\* C13: every chunk add_frame or add_audio accepts and writes, of any
\* payload length, is read back by readChunk: it returns non-zero, 4 plus
\* the count it returns is the size of the chunk on disk, 8 + len +
\* padding, and the stream is then at the tag of the next chunk.
C13_RoundTrip ==
  rd.op = "readChunk" =>
    /\ rd.count # WZero
    /\ WAdd(W(4), rd.count)
         = ChunkSize(out_file.file, LastChunk(out_file.file))
    /\ rd.rs.pos = rd.rs.avail

C15_RejectsExactlyNonPositiveFps ==
  [][lastOp'.op = "open" =>
       ((lastOp'.fps2 <= 0) <=> (lastOp'.ret = -1 /\ nfail' = nfail))]_vars

\* The session was opened with success and close has not been called.
InSession ==
  gwavi.out = "open" /\ sess.openRet = 0 /\ ~sess.closeFailed

\* C16: from a successful open up to the call of close the RIFF size at
\* offset 4 and the `movi` size at the marker, which is the position right
\* after the LIST tag, are zero and the cursor is at the end of the file;
\* add_frame and add_audio, rollover flushes included, only append: the
\* bytes the file had at their entry are unchanged.  A successful close
\* rewrites fields in place and leaves the cursor at the end of the file.
C16_SizeFieldsZeroUntilClose ==
  /\ [](InSession =>
          /\ FieldAt(out_file.file, W(4)) = write_int(WZero)
          /\ FieldAt(out_file.file, gwavi.marker) = write_int(WZero)
          /\ FieldAt(out_file.file, WSub(gwavi.marker, W(4)))
               = write_chars_bin("LIST")
          /\ out_file.pos = FLen(out_file.file))
  /\ [][(InSession /\ lastOp'.op \in {"add_frame", "add_audio"}) =>
          /\ Len(out_file'.file) >= Len(out_file.file)
          /\ SubSeq(out_file'.file, 1, Len(out_file.file)) = out_file.file]_vars
  /\ [][(InSession /\ lastOp'.op = "close" /\ lastOp'.ret = 0) =>
          /\ out_file'.pos = FLen(out_file'.file)
          /\ Len(out_file'.file) >= Len(out_file.file)
          /\ \A i \in 1..Len(out_file.file) :
               \/ out_file'.file[i] = out_file.file[i]
               \/ OffsetOf(out_file.file, i) \in {W(4), W(12), gwavi.marker}]_vars

\* A rollover flush has appended its page and the frame after it, and the
\* session has not been closed.
C16_Witness ==
  /\ InSession
  /\ lastOp.op = "add_frame"
  /\ lastOp.ret = 0
  /\ lastOp.obs.flushed
  /\ FieldAt(out_file.file, gwavi.marker) = write_int(WZero)

\* C17: whenever the video page base is set (non-zero), every video record
\* in the log has an offset at or above it, across rollovers too: the
\* frame that triggered a rollover is the first of the new page and the
\* base of that page is not later than its offset.  Stated of the sessions
\* opened with success in which no I/O primitive has failed.
C17_VideoRecordsAtOrAboveBase ==
  (InSession /\ nfail = 0 /\ gwavi.std_index_base_ofs_v # WZero) =>
    \A e \in 1..Len(gwavi.offsets) :
      gwavi.offsets[e].type = 0 =>
        WLe(gwavi.std_index_base_ofs_v, gwavi.offsets[e].fofs)

\* The offsets of the records of a log are strictly increasing.
Increasing(log) ==
  \A e \in 1..(Len(log) - 1) : WLt(log[e].fofs, log[e + 1].fofs)

\* C18: each call of add_frame or add_audio that passes the validation of
\* its arguments appends exactly one record to the log (emptied first when
\* the call flushed): its offset is the position of the tag of the chunk
\* the call wrote, its length the payload length, its type 0 for video and
\* 1 for audio, its keyframe bit the IF_KEYFRAME bit of the flags, 1 for
\* audio; the offsets of the log are strictly increasing.
C18_OneRecordPerAcceptedCall ==
  [][(InSession /\ lastOp'.op \in {"add_frame", "add_audio"} /\ lastOp'.buf) =>
       /\ Len(gwavi'.offsets)
            = (IF lastOp'.obs.flushed THEN 0 ELSE Len(gwavi.offsets)) + 1
       /\ gwavi'.offsets[Len(gwavi'.offsets)].len = lastOp'.len
       /\ gwavi'.offsets[Len(gwavi'.offsets)].type
            = (IF lastOp'.op = "add_frame" THEN 0 ELSE 1)
       /\ gwavi'.offsets[Len(gwavi'.offsets)].keyFrame
            = (IF lastOp'.op = "add_frame" THEN KeyFrameBit(lastOp'.fps2)
               ELSE 1)
       /\ FieldAt(out_file'.file, gwavi'.offsets[Len(gwavi'.offsets)].fofs)
            = write_chars_bin(IF lastOp'.op = "add_frame" THEN "00dc"
                              ELSE "01wb")
       /\ Increasing(gwavi'.offsets)]_vars

\* C19: the audio data length is 0 at construction; an add_audio that
\* returns 0 adds len plus its padding to it, modulo 2^32, and any other
\* call, a failing add_audio and add_frame among them, leaves it as it
\* was: it is the sum of len + padding over the add_audio calls that
\* succeeded.  add_audio never changes the frame counter.
C19_AudioLengthIsSumOfBlocks ==
  /\ gwavi.stream_header_a.data_length = WZero
  /\ [][/\ gwavi'.stream_header_a.data_length =
             (IF lastOp'.op = "add_audio" /\ lastOp'.ret = 0
              THEN ToU32(WAdd(gwavi.stream_header_a.data_length,
                              ToU32(WAdd(lastOp'.len,
                                         W((WORD_SIZE
                                            - WMod(lastOp'.len, WORD_SIZE))
                                           % WORD_SIZE)))))
              ELSE gwavi.stream_header_a.data_length)
        /\ lastOp'.op = "add_audio" =>
             gwavi'.stream_header_v.data_length
               = gwavi.stream_header_v.data_length]_vars

\* An audio block of 3 bytes was added, and the add_audio after it failed
\* in one of its writes.
C19_Witness ==
  /\ lastOp.op = "add_audio"
  /\ lastOp.buf
  /\ lastOp.ret = -1
  /\ gwavi.stream_header_a.data_length = W(4)

\* C20: when an I/O primitive fails inside add_frame or add_audio, which
\* then returns -1, the frame counter and the log are as they were before
\* the call.
C20_FailedCallLeavesBookkeeping ==
  [][(InSession /\ lastOp'.op \in {"add_frame", "add_audio"}
      /\ lastOp'.buf /\ lastOp'.ret = -1) =>
       /\ gwavi'.stream_header_v.data_length
            = gwavi.stream_header_v.data_length
       /\ gwavi'.offsets = gwavi.offsets]_vars

\* C21: when open has returned -1 because an I/O step failed, every
\* add_frame and add_audio after it returns -1 and so does close: the
\* session is not written to and a partly written header is not finalized.
C21_FailedOpenLeavesSessionUnusable ==
  [][(sess.openRet = -1
      /\ lastOp'.op \in {"add_frame", "add_audio", "close"})
     => lastOp'.ret = -1]_vars

\* The walker has read the tag id of a chunk that declares n bytes: the ids
\* readChunk tells apart and one it skips; files of no, a few and 2^32 - 1
\* bytes, with which a size that wrapped below zero is skipped to its end.
\* An index is not given the long file, which its loop would read to the
\* end.
InitChunk ==
  \E id \in {"avih", "strh", "idx1", "JUNK"}, n \in 0..MaxChunk,
     a \in {W(0), W(2), W(30), W(100), [b |-> 1, s |-> LimbMax]},
     fa \in 0..3 :
    /\ id = "idx1" => a.b = 0
    /\ gwavi = [Construct EXCEPT !.in = "open"]
    /\ out_file = NoFile
    /\ lastOp = Quiet("openIn", 0)
    /\ sess = [openRet |-> 1, closeFailed |-> FALSE]
    /\ nops = 0
    /\ nfail = 0
    /\ rd = [rs |-> Stream(<<[tag |-> id, val |-> W(n)]>>, a, fa),
             op |-> "tag", ret |-> 0, count |-> WZero]
    /\ walk = <<>>

\* readChunk on the chunk whose tag was read.
ReadChunk ==
  /\ rd.op = "tag"
  /\ \E r \in {readChunk(rd.rs, rd.rs.script[1].tag, 1)} :
       rd' = [rs |-> r.rs, op |-> "readChunk", ret |-> 0, count |-> r.ret]
  /\ nops' = nops + 1
  /\ UNCHANGED <<gwavi, out_file, lastOp, sess, nfail, walk>>

SpecChunk == InitChunk /\ [][ReadChunk]_vars

C23_WalkStaysWithinDeclaredSize ==
  [][(rd.op = "openIn" /\ rd'.op = "printHeaders" /\ rd'.rs.vi >= 2)
     => WLe(rd'.rs.pos, WAdd(rd'.rs.script[2].val, W(8 + 3)))]_vars

(* ------------------ the specification of deep nesting ----------------- *)

\* The bytes of `indent` in readList and readChunk.
IndentSize == 256

RECURSIVE Nest(_, _)
\* Lists i..d, one inside the other, around one chunk of 4 bytes; every
\* list declares its type, and the tag, the size and the body of its child.
Nest(d, i) ==
  IF i > d THEN <<T("JUNK"), U(4)>>
  ELSE <<T("LIST"), U(16 + 12 * (d - i)), T("nest")>> \o Nest(d, i + 1)

\* openIn on a well-formed file of d nested lists: shallow files, and the
\* deepest.
DeepOpen ==
  /\ gwavi.in = NULL
  /\ OpenInWith({Stream(<<T("RIFF"), U(16 + 12 * d), T("AVI ")>> \o Nest(d, 1),
                        W(24 + 12 * d), 0) :
                   d \in {0, 1, 2} \cup ((MaxDepth - 2)..MaxDepth)})

\* The call that runs: its frame holds which function it is, printHeaders
\* or readList, its remaining size, its count of bytes and its level.
Top == walk[Len(walk)]

\* `size -= ret; bytesRead += ret`, and the same with 4 for a tag.
Charged(f, ret) ==
  [f EXCEPT !.size = SubU32(@, ret), !.bytesRead = AddU32(@, ret)]

RECURSIVE ReadValues(_, _)
\* k successive reads of values that steer the walk, given up at the first
\* that fails.
ReadValues(rs, k) ==
  IF k = 0 THEN rs
  ELSE IF ~HasValue(rs) THEN read_value(rs)
  ELSE ReadValues(read_value(rs), k - 1)

\* printHeaders returns ret, every readList above it having returned.
Returned(rs, ret) ==
  /\ walk' = <<>>
  /\ rd' = [rs |-> rs, op |-> "printHeaders", ret |-> ret, count |-> WZero]
  /\ gwavi' = [gwavi EXCEPT !.movi_fpos = rs.movi_fpos]
  /\ lastOp' = Quiet("printHeaders", ret)

\* The call goes on with these frames.
Walking(rs, frames) ==
  /\ walk' = frames
  /\ rd' = [rs |-> rs, op |-> "walking", ret |-> 0, count |-> WZero]
  /\ UNCHANGED <<gwavi, lastOp>>

\* Lines 654-684 of printHeaders: the tag RIFF, the size of the file and
\* the form type are read.
WalkCall ==
  /\ rd.op \notin {"walking", "aborted"}
  /\ nops < MaxOps
  /\ \E r \in {ReadValues([rd.rs EXCEPT !.movi_fpos = gwavi.movi_fpos,
                                        !.failed = FALSE, !.after = FALSE,
                                        !.maxlvl = 0], 3)} :
       IF gwavi.in = NULL THEN Returned(rd.rs, -1)
       ELSE IF r.failed THEN Returned(r, -1)
       ELSE Walking(r, <<[fn |-> "printHeaders",
                          size |-> SubU32(r.script[r.vi - 1].val, W(4)),
                          bytesRead |-> WZero, lvl |-> 0]>>)
  /\ nops' = nops + 1
  /\ UNCHANGED <<out_file, sess, nfail>>

\* One iteration of the loop of lines 685-715 or 754-787: the tag of the
\* next child is read.  For LIST, readList is entered (lines 720-752): the
\* list size and the list type are read.  For any other tag, readChunk
\* runs (lines 777-785, 706-713).
WalkTag ==
  /\ rd.op = "walking"
  /\ ~WLt(Top.size, W(4))
  /\ IF ~HasValue(rd.rs) THEN Returned(read_value(rd.rs), -1)
     ELSE IF Value(rd.rs).tag = "LIST"
     THEN \E r \in {ReadValues(Entered(read_value(rd.rs), Top.lvl + 1), 2)} :
            IF r.failed THEN Returned(r, -1)
            ELSE Walking(Movi(r, r.script[r.vi].tag),
                         SubSeq(walk, 1, Len(walk) - 1)
                           \o <<Charged(Top, W(4)),
                                [fn |-> "readList",
                                 size |-> SubU32(r.script[r.vi - 1].val, W(4)),
                                 bytesRead |-> W(4),
                                 lvl |-> Top.lvl + 1]>>)
     ELSE \E c \in {readChunk(read_value(rd.rs), Value(rd.rs).tag,
                              Top.lvl + 1)} :
            IF ChildFailed(c) THEN Returned(c.rs, -1)
            ELSE Walking(c.rs,
                         SubSeq(walk, 1, Len(walk) - 1)
                           \o <<Charged(Charged(Top, W(4)), c.ret)>>)
  /\ UNCHANGED <<out_file, sess, nops, nfail>>

\* The loop ends: printHeaders returns 0 (line 717); readList reads its
\* padding and returns to the loop, one frame up, that called it (lines
\* 789-803).
WalkLeave ==
  /\ rd.op = "walking"
  /\ WLt(Top.size, W(4))
  /\ IF Top.fn = "printHeaders" THEN Returned(rd.rs, 0)
     ELSE \E c \in {PadTail(rd.rs, Top.size, Top.bytesRead)} :
            IF ChildFailed(c) THEN Returned(c.rs, -1)
            ELSE Walking(c.rs,
                         SubSeq(walk, 1, Len(walk) - 2)
                           \o <<Charged(walk[Len(walk) - 1], c.ret)>>)
  /\ UNCHANGED <<out_file, sess, nops, nfail>>

\* Lines 727-728, 812-813: memset(indent, ' ', lvl*3) and indent[lvl*3] = 0
\* write outside `indent` at a level with lvl*3 >= 256.  That write is
\* undefined: it may do no harm, as WalkTag has it, or, in a build with a
\* checked memset or a guarded stack, end the process, and the call never
\* returns.
WalkAbort ==
  /\ rd.op = "walking"
  /\ ~WLt(Top.size, W(4))
  /\ HasValue(rd.rs)
  /\ (Top.lvl + 1) * 3 >= IndentSize
  /\ rd' = [rd EXCEPT !.op = "aborted",
                      !.rs = Entered(read_value(rd.rs), Top.lvl + 1)]
  /\ UNCHANGED <<gwavi, out_file, lastOp, sess, nops, nfail, walk>>

\* A call that runs takes its next step.
SpecDeep ==
  /\ Init
  /\ [][DeepOpen \/ WalkCall \/ WalkTag \/ WalkLeave \/ WalkAbort]_vars
  /\ WF_vars(WalkTag \/ WalkLeave)

\* C24: at every recursion level lvl that a walk reaches, whatever the
\* nesting depth of the lists of the input, lvl*3 is less than the 256
\* bytes of `indent`.
C24_IndentWithinBounds == rd.rs.maxlvl * 3 < IndentSize

\* C25: printHeaders terminates on every finite input: every iteration of
\* a loop of the walk consumes at least one byte or returns the failure
\* sentinel, there are never more calls in flight than bytes consumed, and
\* a call that runs comes to return 0 or -1.
C25_WalkTerminates ==
  /\ [][(rd.op = "walking" /\ ~WLt(Top.size, W(4)) /\ rd' # rd)
        => \/ WLt(rd.rs.pos, rd'.rs.pos)
           \/ rd'.op = "printHeaders" /\ rd'.ret = -1]_vars
  /\ [](WLe(W(Len(walk)), rd.rs.pos))
  /\ (rd.op = "walking" ~> (rd.op = "printHeaders" /\ rd.ret \in {0, -1}))

====
